---- MODULE Spec2Model ----
(***************************************************************************)
(* Client-side session store (AuthProvider) and request gateway            *)
(* (FetchProvider) of the orbit front end.                                 *)
(*                                                                         *)
(* JavaScript values are records [t, n, s]: t is the type tag, n the       *)
(* numeric payload, s the string payload.  Every value has the same three  *)
(* fields so that any two values can be compared.                          *)
(***************************************************************************)
EXTENDS Integers, Sequences, FiniteSets, TLC

VARIABLES
  localStorage,  \* window.localStorage: key -> Null (no entry) or Str(text)
  pc,            \* AuthProvider: "unmounted", "mounted" or "crashed"
  authState,     \* the useState cell of AuthProvider
  now,           \* new Date().getTime(), in milliseconds
  history,       \* paths pushed through useHistory()
  lastOp,        \* the last operation of the session store and what it returned
  instances,     \* axios instances made by FetchProvider: their X-CSRF-Token default
  handshake,     \* getCsrfToken: "idle", "pending", "resolved" or "rejected"
  csrfToken,     \* data.csrfToken of the /csrf-token response
  requests,      \* requests sent through an instance of the gateway
  unhandled      \* promise rejections nobody handled

vars == <<localStorage, pc, authState, now, history, lastOp,
          instances, handshake, csrfToken, requests, unhandled>>
sessionVars == <<localStorage, pc, authState, now, history, lastOp>>
gatewayVars == <<instances, handshake, csrfToken, requests, unhandled>>

----------------------------------------------------------------------------
(* Bounds *)

MaxExp == 2        \* expiresAt arguments are 0..MaxExp seconds
MaxNow == 3        \* the clock runs from 0 to MaxNow seconds
MaxNav == 2        \* history.push calls recorded
MaxRenders == 3    \* renders of FetchProvider
MaxRequests == 3   \* requests recorded

(* Program constant: getTime() is in milliseconds, expiresAt in seconds *)
MsPerSecond == 1000

----------------------------------------------------------------------------
(* JavaScript values *)

JsVal(t, n, s) == [t |-> t, n |-> n, s |-> s]
Undefined == JsVal("undefined", 0, "")
Null == JsVal("null", 0, "")
Num(n) == JsVal("number", n, "")
Str(s) == JsVal("string", 0, s)
Bool(b) == JsVal("boolean", IF b THEN 1 ELSE 0, "")
\* an object whose only possible own property is role: n counts its properties
EmptyObj == JsVal("object", 0, "")
RoleObj(r) == JsVal("object", 1, r)

Roles == {"admin", "user"}
Tokens == {"jwt1"}
CsrfTokens == {"csrf1", "csrf2"}

\* ToBoolean, as used by the ! operator
Truthy(v) ==
  CASE v.t = "undefined" -> FALSE
    [] v.t = "null" -> FALSE
    [] v.t = "boolean" -> v.n = 1
    [] v.t = "number" -> v.n # 0
    [] v.t = "string" -> v.s # ""
    [] OTHER -> TRUE

\* String(v): the coercion localStorage.setItem applies to its value
ToStringJs(v) ==
  CASE v.t = "undefined" -> "undefined"
    [] v.t = "null" -> "null"
    [] v.t = "boolean" -> IF v.n = 1 THEN "true" ELSE "false"
    [] v.t = "number" -> ToString(v.n)
    [] v.t = "string" -> v.s
    [] OTHER -> "[object Object]"

Quote(s) == "\"" \o s \o "\""

\* JSON.stringify(v): a JS string, or undefined for undefined
JSONstringify(v) ==
  CASE v.t = "undefined" -> Undefined
    [] v.t = "null" -> Str("null")
    [] v.t = "boolean" -> Str(IF v.n = 1 THEN "true" ELSE "false")
    [] v.t = "number" -> Str(ToString(v.n))
    [] v.t = "string" -> Str(Quote(v.s))
    [] OTHER -> IF v.n = 0 THEN Str("{}")
                ELSE Str("{" \o Quote("role") \o ":" \o Quote(v.s) \o "}")

\* the values JSON text can denote here
JsonValues ==
  {Null, EmptyObj} \cup {RoleObj(r) : r \in Roles}
    \cup {Num(n) : n \in 0..(MaxExp + 1)} \cup {Str(s) : s \in Roles}

\* JSON.parse(text): the value the text denotes, or a SyntaxError
JSONparse(text) ==
  IF \E v \in JsonValues : JSONstringify(v).s = text
  THEN [thrown |-> "none",
        value |-> CHOOSE v \in JsonValues : JSONstringify(v).s = text]
  ELSE [thrown |-> "SyntaxError", value |-> Undefined]

\* ToNumber, as applied by < to its right operand
ToNumber(v) ==
  CASE v.t = "number" -> [nan |-> FALSE, n |-> v.n]
    [] v.t = "boolean" -> [nan |-> FALSE, n |-> v.n]
    [] v.t = "null" -> [nan |-> FALSE, n |-> 0]
    [] v.t = "string" ->
         IF v.s = "" THEN [nan |-> FALSE, n |-> 0]
         ELSE IF \E n \in 0..(MaxExp + 1) : ToString(n) = v.s
              THEN [nan |-> FALSE,
                    n |-> CHOOSE n \in 0..(MaxExp + 1) : ToString(n) = v.s]
              ELSE [nan |-> TRUE, n |-> 0]
    [] OTHER -> [nan |-> TRUE, n |-> 0]

\* v.role: property access throws on undefined and null
GetRole(v) ==
  CASE v.t \in {"undefined", "null"} -> [thrown |-> "TypeError", value |-> Undefined]
    [] v.t = "object" /\ v.n = 1 -> [thrown |-> "none", value |-> Str(v.s)]
    [] OTHER -> [thrown |-> "none", value |-> Undefined]

----------------------------------------------------------------------------
(* localStorage *)

StorageKeys == {"userInfo", "expiresAt", "token"}

getItem(store, k) == store[k]
setItem(store, k, v) == [store EXCEPT ![k] = Str(ToStringJs(v))]
removeItem(store, k) == [store EXCEPT ![k] = Null]

----------------------------------------------------------------------------
(* AuthProvider *)

State(token, userInfo, expiresAt) ==
  [token |-> token, expiresAt |-> expiresAt, userInfo |-> userInfo]

\* no useState cell exists (before the first render, after a crash)
NoState == State(Undefined, Undefined, Undefined)

\* the argument values of setAuthInfo
TokenArgs == {Undefined} \cup {Str(t) : t \in Tokens}
UserInfoArgs == {Undefined, Null, EmptyObj} \cup {RoleObj(r) : r \in Roles}
ExpiresAtArgs == {Undefined} \cup {Num(n) : n \in 0..MaxExp}

\* what a page load can find under the keys userInfo and expiresAt
StoredUserInfo ==
  {Null, Str("{bad"), Str("null"), Str("{}"), Str(Quote("admin")),
   JSONstringify(RoleObj("admin"))}
StoredExpiresAt ==
  {Null, Str("abc")} \cup {Str(ToString(n)) : n \in 0..MaxExp}

\* hydration that takes the stored user record for a credential: the token
\* of the initial state is the stored userInfo text instead of null
HydratedStateWithToken(store) ==
  LET userInfo == getItem(store, "userInfo")
      expiresAt == getItem(store, "expiresAt")
      parsed == IF Truthy(userInfo) THEN JSONparse(userInfo.s)
                ELSE [thrown |-> "none", value |-> EmptyObj]
  IN  [thrown |-> parsed.thrown,
       state |-> IF parsed.thrown = "none"
                 THEN State(userInfo, parsed.value, expiresAt)
                 ELSE NoState]

\* lines 10-16: the initial useState value, or the error JSON.parse throws
HydratedState(store) ==
  LET userInfo == getItem(store, "userInfo")
      expiresAt == getItem(store, "expiresAt")
      parsed == IF Truthy(userInfo) THEN JSONparse(userInfo.s)
                ELSE [thrown |-> "none", value |-> EmptyObj]
  IN  [thrown |-> parsed.thrown,
       state |-> IF parsed.thrown = "none"
                 THEN State(Null, parsed.value, expiresAt)
                 ELSE NoState]

\* setAuthInfo with line 20 left in: the token is written too
SetAuthInfoStorageWithToken(store, token, userInfo, expiresAt) ==
  setItem(setItem(setItem(store, "token", token),
                  "userInfo", JSONstringify(userInfo)),
          "expiresAt", expiresAt)

\* lines 21-22: what setAuthInfo leaves in localStorage
SetAuthInfoStorage(store, token, userInfo, expiresAt) ==
  setItem(setItem(store, "userInfo", JSONstringify(userInfo)),
          "expiresAt", expiresAt)

\* setAuthInfo that forgets the token
SetAuthInfoStateOmitToken(token, userInfo, expiresAt) ==
  State(Null, userInfo, expiresAt)

\* setAuthInfo that updates the token alone and keeps the other fields
SetAuthInfoStatePartial(token, userInfo, expiresAt) ==
  [authState EXCEPT !.token = token]

\* line 23
SetAuthInfoState(token, userInfo, expiresAt) ==
  State(token, userInfo, expiresAt)

\* logout that forgets line 29
LogoutStorageKeepExpiresAt(store) ==
  removeItem(store, "userInfo")

\* lines 28-29
LogoutStorage(store) ==
  removeItem(removeItem(store, "userInfo"), "expiresAt")

\* line 30
LogoutState == State(Null, EmptyObj, Null)

\* isAuthenticated without the token test of line 35
IsAuthenticatedNoTokenCheck(state, t) ==
  IF ~Truthy(state.expiresAt)
  THEN FALSE
  ELSE LET e == ToNumber(state.expiresAt)
       IN  ~e.nan /\ t < e.n * MsPerSecond

\* isAuthenticated with <= for < in line 39
IsAuthenticatedLeq(state, t) ==
  IF ~Truthy(state.token) \/ ~Truthy(state.expiresAt)
  THEN FALSE
  ELSE LET e == ToNumber(state.expiresAt)
       IN  ~e.nan /\ t <= e.n * MsPerSecond

\* lines 34-40, evaluated when the clock shows t milliseconds
IsAuthenticatedResult(state, t) ==
  IF ~Truthy(state.token) \/ ~Truthy(state.expiresAt)
  THEN FALSE
  ELSE LET e == ToNumber(state.expiresAt)
       IN  ~e.nan /\ t < e.n * MsPerSecond

\* isAdmin that accepts any role
IsAdminAnyRole(state) ==
  LET role == GetRole(state.userInfo)
  IN  [thrown |-> role.thrown,
       value |-> IF role.thrown = "none" THEN Bool(role.value # Undefined)
                 ELSE Undefined]

\* lines 42-44
IsAdminResult(state) ==
  LET role == GetRole(state.userInfo)
  IN  [thrown |-> role.thrown,
       value |-> IF role.thrown = "none" THEN Bool(role.value = Str("admin"))
                 ELSE Undefined]

\* the record of an operation.  prev is the operation before a getState or a
\* reload (a setSession that threw counts as none), and a mount after a reload
\* keeps the reload's; a reload after a setSession, and the mount after it,
\* keep the setSession's arguments; noSessionYet says that no setSession has
\* gone through since the last mount.
Op(name, arg, ret, state, thrown) ==
  [op |-> name,
   prev |-> CASE name = "getState" -> lastOp.op
              [] name = "reload" ->
                   IF lastOp.thrown = "none" THEN lastOp.op ELSE ""
              [] name = "mount" /\ lastOp.op = "reload" -> lastOp.prev
              [] OTHER -> "",
   arg |-> CASE name = "reload" /\ lastOp.op = "setSession" -> lastOp.arg
             [] name = "mount" /\ lastOp.op = "reload" -> lastOp.arg
             [] OTHER -> arg,
   ret |-> ret, state |-> state, thrown |-> thrown,
   noSessionYet |-> CASE name = "mount" -> thrown = "none"
                      [] name = "reload" -> FALSE
                      [] name = "setSession" /\ thrown = "none" -> FALSE
                      [] OTHER -> lastOp.noSessionYet]

\* first render of AuthProvider after a page load
Mount ==
  /\ pc = "unmounted"
  /\ LET h == HydratedState(localStorage)
     IN  /\ pc' = IF h.thrown = "none" THEN "mounted" ELSE "crashed"
         /\ authState' = h.state
         /\ lastOp' = Op("mount", NoState, Undefined, NoState, h.thrown)
  /\ UNCHANGED <<localStorage, now, history>>

\* the page is reloaded: memory is lost, localStorage stays
Reload ==
  /\ pc \in {"mounted", "crashed"}
  /\ pc' = "unmounted"
  /\ authState' = NoState
  /\ lastOp' = Op("reload", NoState, Undefined, NoState, "none")
  /\ UNCHANGED <<localStorage, now, history>>

\* setAuthState(authInfo) of the context value, lines 18-24 and 49
SetAuthInfo(token, userInfo, expiresAt) ==
  /\ pc = "mounted"
  /\ localStorage' = SetAuthInfoStorage(localStorage, token, userInfo, expiresAt)
  /\ authState' = SetAuthInfoState(token, userInfo, expiresAt)
  /\ lastOp' = Op("setSession", State(token, userInfo, expiresAt), Undefined,
                  NoState, "none")
  /\ UNCHANGED <<pc, now, history>>

\* setAuthState() without an argument: destructuring undefined throws (line 18)
SetAuthInfoNoArg ==
  /\ pc = "mounted"
  /\ lastOp' = Op("setSession", NoState, Undefined, NoState, "TypeError")
  /\ UNCHANGED <<localStorage, pc, authState, now, history>>

\* logout without line 31
LogoutNoNavigate ==
  /\ pc = "mounted"
  /\ Len(history) < MaxNav
  /\ localStorage' = LogoutStorage(localStorage)
  /\ authState' = LogoutState
  /\ lastOp' = Op("logout", NoState, Undefined, NoState, "none")
  /\ UNCHANGED <<pc, now, history>>

\* lines 26-32
Logout ==
  /\ pc = "mounted"
  /\ Len(history) < MaxNav
  /\ localStorage' = LogoutStorage(localStorage)
  /\ authState' = LogoutState
  /\ history' = Append(history, "/login")
  /\ lastOp' = Op("logout", NoState, Undefined, NoState, "none")
  /\ UNCHANGED <<pc, now>>

\* a consumer reads authState off the context value (line 48)
GetState ==
  /\ pc = "mounted"
  /\ lastOp' = Op("getState", NoState, Undefined, authState, "none")
  /\ UNCHANGED <<localStorage, pc, authState, now, history>>

\* isAuthenticated that ends an expired session when it sees one
IsAuthenticatedEager ==
  /\ pc = "mounted"
  /\ lastOp' = Op("isAuthenticated", NoState,
                  Bool(IsAuthenticatedResult(authState, now)), NoState, "none")
  /\ IF Truthy(authState.token) /\ ~IsAuthenticatedResult(authState, now)
     THEN /\ authState' = LogoutState
          /\ localStorage' = LogoutStorage(localStorage)
     ELSE UNCHANGED <<authState, localStorage>>
  /\ UNCHANGED <<pc, now, history>>

\* lines 34-40, called through the context value (line 50)
IsAuthenticated ==
  /\ pc = "mounted"
  /\ lastOp' = Op("isAuthenticated", NoState,
                  Bool(IsAuthenticatedResult(authState, now)), NoState, "none")
  /\ UNCHANGED <<localStorage, pc, authState, now, history>>

IsAdmin ==
  /\ pc = "mounted"
  /\ LET r == IsAdminResult(authState)
     IN  lastOp' = Op("isAdmin", NoState, r.value, NoState, r.thrown)
  /\ UNCHANGED <<localStorage, pc, authState, now, history>>

\* half a second passes
Tick ==
  /\ now + (MsPerSecond \div 2) <= MaxNow * MsPerSecond
  /\ now' = now + (MsPerSecond \div 2)
  /\ lastOp' = Op("tick", NoState, Undefined, NoState, "none")
  /\ UNCHANGED <<localStorage, pc, authState, history>>

SessionInit ==
  /\ localStorage \in {[k \in StorageKeys |->
                          CASE k = "userInfo" -> u
                            [] k = "expiresAt" -> e
                            [] OTHER -> Null] :
                        u \in StoredUserInfo, e \in StoredExpiresAt}
  /\ pc = "unmounted"
  /\ authState = NoState
  /\ now = 0
  /\ history = <<>>
  /\ lastOp = [op |-> "load", prev |-> "", arg |-> NoState,
               ret |-> Undefined, state |-> NoState, thrown |-> "none",
               noSessionYet |-> FALSE]

GatewayIdle ==
  /\ instances = <<>>
  /\ handshake = "idle"
  /\ csrfToken = Undefined
  /\ requests = <<>>
  /\ unhandled = 0

Init == SessionInit /\ GatewayIdle

Next ==
  \/ Mount /\ UNCHANGED gatewayVars
  \/ Reload /\ UNCHANGED gatewayVars
  \/ \E t \in TokenArgs, u \in UserInfoArgs, e \in ExpiresAtArgs :
       SetAuthInfo(t, u, e) /\ UNCHANGED gatewayVars
  \/ SetAuthInfoNoArg /\ UNCHANGED gatewayVars
  \/ Logout /\ UNCHANGED gatewayVars
  \/ GetState /\ UNCHANGED gatewayVars
  \/ IsAuthenticated /\ UNCHANGED gatewayVars
  \/ IsAdmin /\ UNCHANGED gatewayVars
  \/ Tick /\ UNCHANGED gatewayVars

Spec == Init /\ [][Next]_vars

\* the session store on a browser whose localStorage is empty, driven by
\* setSession and logout alone
MirrorNext ==
  \/ Mount /\ UNCHANGED gatewayVars
  \/ \E t \in TokenArgs, u \in UserInfoArgs, e \in ExpiresAtArgs :
       SetAuthInfo(t, u, e) /\ UNCHANGED gatewayVars
  \/ SetAuthInfoNoArg /\ UNCHANGED gatewayVars
  \/ Logout /\ UNCHANGED gatewayVars

----------------------------------------------------------------------------
(* FetchProvider *)

\* line 10-12: axios.create copies the global defaults, which carry no
\* X-CSRF-Token; the value is the instance's defaults.headers['X-CSRF-Token']
CreatedInstance == Undefined

\* lines 14-20: the effect runs after the first render only, so the authAxios
\* of its closure is the instance of the first render
EffectInstance == 1

\* line 35: the context value holds the authAxios of the latest render
ExposedInstance(insts) == Len(insts)

\* axios merges the instance's default headers into each request it sends
Request(method, url, inst) ==
  [method |-> method, url |-> url, csrf |-> instances[inst],
   handshake |-> handshake]

\* first render (lines 8-12, 34-36), then the effect calls getCsrfToken, which
\* sends GET /csrf-token and suspends at the await (lines 14-16, 19)
FetchMount ==
  /\ handshake = "idle"
  /\ instances' = <<CreatedInstance>>
  /\ handshake' = "pending"
  /\ requests' = Append(requests,
       [method |-> "GET", url |-> "/csrf-token", csrf |-> CreatedInstance,
        handshake |-> "idle"])
  /\ UNCHANGED <<csrfToken, unhandled>>

\* a re-render whose effect has no dependency list: getCsrfToken runs again
FetchRenderRunsEffect ==
  /\ handshake # "idle"
  /\ Len(instances) < MaxRenders
  /\ instances' = Append(instances, CreatedInstance)
  /\ handshake' = "pending"
  /\ requests' = Append(requests,
       [method |-> "GET", url |-> "/csrf-token", csrf |-> CreatedInstance,
        handshake |-> handshake])
  /\ UNCHANGED <<csrfToken, unhandled>>

\* React renders FetchProvider again: line 10 runs again, lines 14-20 do not
FetchRender ==
  /\ handshake # "idle"
  /\ Len(instances) < MaxRenders
  /\ instances' = Append(instances, CreatedInstance)
  /\ UNCHANGED <<handshake, csrfToken, requests, unhandled>>

\* the response arrives: lines 16-17
HandshakeResolve(c) ==
  /\ handshake = "pending"
  /\ csrfToken' = Str(c)
  /\ instances' = [instances EXCEPT ![EffectInstance] = Str(c)]
  /\ handshake' = "resolved"
  /\ UNCHANGED <<requests, unhandled>>

\* the request fails: the await throws (line 16), the promise getCsrfToken()
\* returned is rejected, and line 19 attaches no handler to it
HandshakeReject ==
  /\ handshake = "pending"
  /\ handshake' = "rejected"
  /\ unhandled' = unhandled + 1
  /\ UNCHANGED <<instances, csrfToken, requests>>

\* a client that holds requests back until the handshake has resolved
SendRequestAfterHandshake(method) ==
  /\ handshake = "resolved"
  /\ Len(requests) < MaxRequests
  /\ requests' = Append(requests,
       Request(method, "/api", ExposedInstance(instances)))
  /\ UNCHANGED <<instances, handshake, csrfToken, unhandled>>

\* a consumer sends a request through the authAxios of the context value
SendRequest(method) ==
  /\ handshake # "idle"
  /\ Len(requests) < MaxRequests
  /\ requests' = Append(requests,
       Request(method, "/api", ExposedInstance(instances)))
  /\ UNCHANGED <<instances, handshake, csrfToken, unhandled>>

GatewayInit ==
  /\ localStorage = [k \in StorageKeys |-> Null]
  /\ pc = "unmounted"
  /\ authState = NoState
  /\ now = 0
  /\ history = <<>>
  /\ lastOp = [op |-> "load", prev |-> "", arg |-> NoState,
               ret |-> Undefined, state |-> NoState, thrown |-> "none",
               noSessionYet |-> FALSE]
  /\ GatewayIdle

GatewayNext ==
  \/ FetchMount /\ UNCHANGED sessionVars
  \/ FetchRender /\ UNCHANGED sessionVars
  \/ \E c \in CsrfTokens : HandshakeResolve(c) /\ UNCHANGED sessionVars
  \/ HandshakeReject /\ UNCHANGED sessionVars
  \/ \E m \in {"GET", "POST"} : SendRequest(m) /\ UNCHANGED sessionVars

GatewaySpec == GatewayInit /\ [][GatewayNext]_vars

MirrorSpec == GatewayInit /\ [][MirrorNext]_vars

----------------------------------------------------------------------------
(* Properties *)

\* a field of the session state is absent
Absent == {Null, Undefined}

\* the stored text v is there and JSON.parse rejects it
Unparsable(v) == Truthy(v) /\ JSONparse(v.s).thrown # "none"

\* C1: localStorage never holds the session token: no key other than userInfo
\* and expiresAt has an entry, and no entry is the text of a token.
C1_TokenNeverPersisted ==
  /\ \A k \in StorageKeys \ {"userInfo", "expiresAt"} : localStorage[k] = Null
  /\ \A k \in StorageKeys, t \in Tokens :
       localStorage[k] \notin {Str(t), Str(Quote(t))}

\* a session with a token has been set and written to localStorage
C1_Witness ==
  /\ lastOp.op = "setSession"
  /\ authState.token \in {Str(t) : t \in Tokens}
  /\ localStorage["userInfo"] # Null
  /\ localStorage["expiresAt"] # Null

\* C2: isAuthenticated() is false whenever the token or expiresAt is absent,
\* whatever the other field and the clock are.
C2_AbsentFieldNotAuthenticated ==
  (lastOp.op = "isAuthenticated"
     /\ (authState.token \in Absent \/ authState.expiresAt \in Absent))
  => lastOp.ret = Bool(FALSE)

\* isAuthenticated() was called without a token while expiresAt lies ahead
C2_Witness ==
  /\ lastOp.op = "isAuthenticated"
  /\ authState.token \in Absent
  /\ authState.expiresAt.t = "number"
  /\ now < authState.expiresAt.n * MsPerSecond

\* C3: with a token and expiresAt (a number of seconds) both present,
\* isAuthenticated() is true iff the millisecond clock divided by 1000 is
\* strictly below expiresAt.
C3_AuthenticatedIffBeforeExpiry ==
  (lastOp.op = "isAuthenticated"
     /\ authState.token \notin Absent
     /\ authState.expiresAt \notin Absent
     /\ authState.expiresAt.t = "number")
  => lastOp.ret = Bool(now < authState.expiresAt.n * MsPerSecond)

\* isAuthenticated() was true at a clock value that is not a whole second
C3_Witness ==
  /\ lastOp.op = "isAuthenticated"
  /\ lastOp.ret = Bool(TRUE)
  /\ authState.token \notin Absent
  /\ now % MsPerSecond # 0

\* C4: getState() right after setSession(identity, token, expiresAt) returns
\* the three values given, and localStorage then holds the serialized identity
\* under userInfo, expiresAt under expiresAt, and nothing else.
C4_SetSessionThenGetState ==
  [][(lastOp.op = "setSession" /\ lastOp.thrown = "none"
        /\ lastOp'.op = "getState")
     => /\ lastOp'.state = lastOp.arg
        /\ localStorage' =
             [k \in StorageKeys |->
                CASE k = "userInfo" ->
                       Str(ToStringJs(JSONstringify(lastOp.arg.userInfo)))
                  [] k = "expiresAt" -> Str(ToStringJs(lastOp.arg.expiresAt))
                  [] OTHER -> Null]]_vars

\* getState() ran right after a setSession that carried a token
C4_Witness ==
  /\ lastOp.op = "getState"
  /\ lastOp.prev = "setSession"
  /\ lastOp.state.token \in {Str(t) : t \in Tokens}
  /\ lastOp.state.userInfo \in {RoleObj(r) : r \in Roles}

\* C5: getState() right after logout() returns the empty state, and
\* localStorage then has no userInfo and no expiresAt entry.
C5_LogoutThenGetState ==
  [][(lastOp.op = "logout" /\ lastOp'.op = "getState")
     => /\ lastOp'.state = State(Null, EmptyObj, Null)
        /\ localStorage'["userInfo"] = Null
        /\ localStorage'["expiresAt"] = Null]_vars

\* getState() ran right after a logout
C5_Witness ==
  /\ lastOp.op = "getState"
  /\ lastOp.prev = "logout"
  /\ Len(history) > 0

C7_HydrationNeverCrashes ==
  (lastOp.op = "mount" /\ Unparsable(localStorage["userInfo"]))
  => /\ lastOp.thrown = "none"
     /\ pc = "mounted"
     /\ authState.userInfo = EmptyObj
     /\ authState.token = Null

\* C8: getState, isAuthenticated, isAdmin and logout never throw.
C8_OperationsTotal ==
  lastOp.op \in {"getState", "isAuthenticated", "isAdmin", "logout"}
  => lastOp.thrown = "none"

\* C9: a setSession call with a missing argument is refused: every call that
\* went through had all three arguments.
C9_SetSessionValidates ==
  (lastOp.op = "setSession" /\ lastOp.thrown = "none")
  => /\ lastOp.arg.userInfo # Undefined
     /\ lastOp.arg.token # Undefined
     /\ lastOp.arg.expiresAt # Undefined

\* C10: every request sent through the exposed client after the handshake
\* resolved carries X-CSRF-Token with the fetched token.
C10_HeaderAfterHandshake ==
  \A i \in DOMAIN requests :
    requests[i].handshake = "resolved" => requests[i].csrf = csrfToken


\* C11: while the handshake is pending a mutating request can be sent at once
\* (nothing holds it back), and every request sent then has no X-CSRF-Token.
C11_PendingRequestSentWithoutHeader ==
  /\ \A i \in DOMAIN requests :
       requests[i].handshake = "pending" => requests[i].csrf = Undefined
  /\ (handshake = "pending" /\ Len(requests) < MaxRequests)
       => ENABLED (SendRequest("POST") /\ UNCHANGED sessionVars)

\* a POST went out while the handshake was pending
C11_Witness ==
  \E i \in DOMAIN requests :
    /\ requests[i].method = "POST"
    /\ requests[i].handshake = "pending"
    /\ requests[i].csrf = Undefined

\* C12: once the gateway is mounted exactly one GET /csrf-token has been
\* sent, the first request of all; after a failed handshake no instance has
\* the header and the handshake stays failed.
C12_HandshakeOnce ==
  /\ handshake # "idle"
       => /\ Cardinality({i \in DOMAIN requests :
                            requests[i].url = "/csrf-token"}) = 1
          /\ requests[1].url = "/csrf-token"
  /\ handshake = "rejected"
       => /\ \A i \in DOMAIN instances : instances[i] = Undefined
          /\ ~ENABLED (\E c \in CsrfTokens :
                         HandshakeResolve(c) /\ UNCHANGED sessionVars)

\* the handshake has failed, and renders and requests have followed it
C12_Witness ==
  /\ handshake = "rejected"
  /\ Len(instances) > 1
  /\ \E i \in DOMAIN requests : requests[i].handshake = "rejected"

\* C13: a failed handshake leaves no rejection unhandled.
C13_HandshakeFailureAbsorbed ==
  handshake = "rejected" => unhandled = 0


\* C14: from hydration until the first setSession, isAuthenticated() is false
\* whatever localStorage held.
C14_NotAuthenticatedBeforeSetSession ==
  (lastOp.op = "isAuthenticated" /\ lastOp.noSessionYet)
  => lastOp.ret = Bool(FALSE)

\* isAuthenticated() was called before any setSession on a state hydrated
\* with an expiresAt text that parses to a time still ahead
C14_Witness ==
  /\ lastOp.op = "isAuthenticated"
  /\ lastOp.noSessionYet
  /\ authState.expiresAt.t = "string"
  /\ ~ToNumber(authState.expiresAt).nan
  /\ now < ToNumber(authState.expiresAt).n * MsPerSecond

\* C15: the clock never goes back, and the value of isAuthenticated() goes
\* from false to true only in a setSession step.
C15_AuthenticatedOnlyBySetSession ==
  [][/\ now' >= now
     /\ (~IsAuthenticatedResult(authState, now)
           /\ IsAuthenticatedResult(authState', now'))
        => (lastOp'.op = "setSession" /\ lastOp'.thrown = "none")]_vars

\* time has run past the expiresAt of a session that is still in memory
C15_Witness ==
  /\ lastOp.op = "tick"
  /\ Truthy(authState.token)
  /\ authState.expiresAt.t = "number"
  /\ authState.expiresAt.n > 0
  /\ now >= authState.expiresAt.n * MsPerSecond

\* C16: history changes only in a logout step, and every logout step pushes
\* /login exactly once.
C16_OnlyLogoutNavigates ==
  [][/\ history' # history => lastOp'.op = "logout"
     /\ lastOp'.op = "logout" => history' = Append(history, "/login")]_vars

\* a logout has navigated, and a session was set afterwards without navigating
C16_Witness ==
  /\ history = <<"/login">>
  /\ lastOp.op = "setSession"
  /\ lastOp.thrown = "none"

\* C17: getState, isAuthenticated, isAdmin and the passing of time leave
\* authState and localStorage as they are.
C17_ReadsChangeNothing ==
  [][lastOp'.op \in {"getState", "isAuthenticated", "isAdmin", "tick"}
     => /\ authState' = authState
        /\ localStorage' = localStorage]_vars

\* isAuthenticated() returned false for an expired session that is still in
\* memory and in localStorage
C17_Witness ==
  /\ lastOp.op = "isAuthenticated"
  /\ lastOp.ret = Bool(FALSE)
  /\ Truthy(authState.token)
  /\ authState.expiresAt.t = "number"
  /\ authState.expiresAt.n > 0
  /\ now >= authState.expiresAt.n * MsPerSecond
  /\ localStorage["expiresAt"] = Str(ToString(authState.expiresAt.n))
  /\ localStorage["userInfo"] # Null

\* C18: while the store is mounted authState changes only in a setSession or
\* a logout step; a setSession leaves exactly its three arguments and a logout
\* exactly the empty state.
C18_WholesaleReplacement ==
  [][/\ (pc = "mounted" /\ pc' = "mounted" /\ authState' # authState)
          => lastOp'.op \in {"setSession", "logout"}
     /\ (lastOp'.op = "setSession" /\ lastOp'.thrown = "none")
          => authState' = lastOp'.arg
     /\ lastOp'.op = "logout"
          => authState' = State(Null, EmptyObj, Null)]_vars

\* a setSession has gone through and authState is exactly its arguments
C18_Witness ==
  /\ lastOp.op = "setSession"
  /\ lastOp.thrown = "none"
  /\ authState = State(Str("jwt1"), RoleObj("user"), Num(1))

\* the session state is empty: no token, no expiresAt, the empty identity
EmptySession(st) ==
  st.token \in Absent /\ st.expiresAt \in Absent /\ st.userInfo = EmptyObj

\* C19: from an empty localStorage, after any setSession and logout calls the
\* userInfo and expiresAt entries are both there and are the serialized
\* identity and expiresAt of authState, or both gone; they are gone exactly
\* when authState is the empty state.
C19_StorageMirrorsState ==
  pc = "mounted"
  => /\ (localStorage["userInfo"] = Null) <=> (localStorage["expiresAt"] = Null)
     /\ localStorage["userInfo"] # Null
          => /\ localStorage["userInfo"] =
                  Str(ToStringJs(JSONstringify(authState.userInfo)))
             /\ localStorage["expiresAt"] =
                  Str(ToStringJs(authState.expiresAt))
     /\ (localStorage["userInfo"] = Null) <=> EmptySession(authState)

\* C20: the first render after setSession(identity, token, expiresAt) and a
\* reload yields the identity that was set, the text of the expiresAt that was
\* set and no token, so isAuthenticated() is false.
C20_ReloadRoundTrip ==
  (lastOp.op = "mount" /\ lastOp.prev = "setSession")
  => /\ lastOp.thrown = "none"
     /\ pc = "mounted"
     /\ authState.userInfo = lastOp.arg.userInfo
     /\ authState.expiresAt = Str(ToStringJs(lastOp.arg.expiresAt))
     /\ authState.token \in Absent
     /\ ~IsAuthenticatedResult(authState, now)

====
